---- MODULE Spec2Model ----
(***************************************************************************)
(* Merge core of dulwich: the lowest-common-ancestor search of             *)
(* merge_base.py (_find_lcas, find_merge_base), the octopus iteration of   *)
(* tests/test_graph.py and the diff3 line merge of diff3merge.py.          *)
(***************************************************************************)
EXTENDS Integers, Sequences, FiniteSets, TLC

(***************************************************************************)
(* Bounds of the model.                                                    *)
(***************************************************************************)
\* commits of the parent graphs searched with two inputs (c1, [c2])
NumCommits == 4
\* commits of the parent graphs searched with more inputs (c1, [c2..cn])
NumCommitsN == 3
\* longest parent list of a commit
MaxParents == 2
\* longest list c2s of other inputs
MaxOthers == 2

(***************************************************************************)
(* Flags of merge_base.py, lines 21-24.                                    *)
(***************************************************************************)
ANC_OF_1 == 1
ANC_OF_2 == 2
DNC == 4
LCA == 8

FlagBits == {ANC_OF_1, ANC_OF_2, DNC, LCA}

\* flags & bit, for a single bit
HasFlag(flags, bit) == (flags \div bit) % 2 = 1

\* x | y on the four flag bits
BitOr(x, y) ==
    (IF HasFlag(x, ANC_OF_1) \/ HasFlag(y, ANC_OF_1) THEN ANC_OF_1 ELSE 0)
  + (IF HasFlag(x, ANC_OF_2) \/ HasFlag(y, ANC_OF_2) THEN ANC_OF_2 ELSE 0)
  + (IF HasFlag(x, DNC) \/ HasFlag(y, DNC) THEN DNC ELSE 0)
  + (IF HasFlag(x, LCA) \/ HasFlag(y, LCA) THEN LCA ELSE 0)

Range(s) == {s[k] : k \in DOMAIN s}

(***************************************************************************)
(* The parent graphs.  A graph is the table behind lookup_parents: commit  *)
(* n is entry n, its value the list of n's parents.  Commits are numbered  *)
(* so that parents come before children, which makes every graph acyclic.  *)
(***************************************************************************)
\* the lists of at most MaxParents distinct commits among 1..n-1
ParentLists(n) ==
    {ps \in UNION {[1..k -> 1..(n - 1)] : k \in 0..MaxParents} :
        \A i, j \in DOMAIN ps : i # j => ps[i] # ps[j]}

RECURSIVE Graphs(_)
Graphs(n) ==
    IF n = 0 THEN {<<>>}
    ELSE {Append(g, ps) : g \in Graphs(n - 1), ps \in ParentLists(n)}

lookup_parents(g, commit_id) == g[commit_id]

VARIABLES
    parents,    \* the parent graph behind lookup_parents
    c1,         \* first input commit
    c2s,        \* the other input commits
    cstates,    \* _find_lcas: commit -> flags
    wlst,       \* _find_lcas: the working list (a deque)
    cands,      \* _find_lcas: candidate LCAs in order of discovery
    results,    \* _find_lcas: the returned list
    k,          \* position of the running for loop in c2s
    lcas,       \* test_octopus: the list lcas
    o_lines,    \* Merge3Way: lines of the ancestor file
    a_lines,    \* Merge3Way: lines of alice's file
    b_lines,    \* Merge3Way: lines of bob's file
    a_matches,  \* Merge3Way: ancestor line number -> alice line number
    b_matches,  \* Merge3Way: ancestor line number -> bob line number
    on,         \* Merge3Way: lines of the ancestor consumed
    an,         \* Merge3Way: lines of alice consumed
    bn,         \* Merge3Way: lines of bob consumed
    chunks,     \* Merge3Way: the chunks written
    res,        \* merge(): the joined chunks
    this_tree,        \* merge_tree: the tree of THIS, path -> entry
    other_tree,       \* merge_tree: the tree of OTHER
    common_tree,      \* merge_tree: the tree of COMMON
    rename_detector,  \* merge_tree: the rename detector, or None
    file_merger,      \* merge_tree: the three-way file merger, or None
    object_store,     \* the blobs of the object store, blob id -> bytes
    done,             \* merge_tree: changes of OTHER the for loop has handled
    yielded,          \* merge_tree: the items yielded so far
    commit_trees,     \* merge(): the tree of every commit
    merge_base,       \* merge(): the local merge_base, or Unbound
    conflicts,        \* merge(): the list conflicts
    pc          \* control position of the running function

queryVars == <<parents, c1, c2s>>
searchVars == <<cstates, wlst, cands, results>>
fileVars == <<o_lines, a_lines, b_lines, a_matches, b_matches>>
mergeVars == <<on, an, bn, chunks, res>>
treeVars == <<this_tree, other_tree, common_tree, rename_detector, file_merger,
              object_store, done, yielded>>
driverVars == <<commit_trees, merge_base, conflicts>>

vars == <<queryVars, searchVars, k, lcas, fileVars, mergeVars, treeVars,
          driverVars, pc>>

\* no search is running
NoSearch ==
    /\ cstates = <<>>
    /\ wlst = <<>>
    /\ cands = <<>>
    /\ results = <<>>

\* no merge_tree is running
NoMergeTree ==
    /\ this_tree = <<>>
    /\ other_tree = <<>>
    /\ common_tree = <<>>
    /\ rename_detector = 0
    /\ file_merger = 0
    /\ object_store = <<>>
    /\ done = 0
    /\ yielded = <<>>

\* no merge() is running
NoMerge ==
    /\ commit_trees = <<>>
    /\ merge_base = 0
    /\ conflicts = <<>>

\* no Merge3Way object exists
NoMerge3Way ==
    /\ o_lines = <<>>
    /\ a_lines = <<>>
    /\ b_lines = <<>>
    /\ a_matches = <<>>
    /\ b_matches = <<>>
    /\ on = 0
    /\ an = 0
    /\ bn = 0
    /\ chunks = <<>>
    /\ res = ""

(***************************************************************************)
(* _find_lcas, merge_base.py lines 16-69.  The working state of one call   *)
(* is the record [cstates, wlst, cands].                                   *)
(***************************************************************************)
\* lines 26-31
has_candidates(w, cs) ==
    \E i \in DOMAIN w : w[i] \in DOMAIN cs /\ ~HasFlag(cs[w[i]], DNC)

\* lines 17-18 and 34-36: empty cands, cstates[c1] = _ANC_OF_1, wlst = [c1]
StartWork(first) ==
    [cstates |-> (first :> ANC_OF_1), wlst |-> <<first>>, cands |-> <<>>]

\* SeedOne with the flag of line 35 copied to line 38
SeedOneAsFirst(s, c2) ==
    [s EXCEPT !.cstates = (c2 :> ANC_OF_1) @@ s.cstates,
              !.wlst = Append(s.wlst, c2)]

\* lines 38-39, one pass of "for c2 in c2s": the flag is assigned, not or-ed
SeedOne(s, c2) ==
    [s EXCEPT !.cstates = (c2 :> ANC_OF_2) @@ s.cstates,
              !.wlst = Append(s.wlst, c2)]

RECURSIVE SeedAll(_, _)
SeedAll(s, cs) ==
    IF cs = <<>> THEN s ELSE SeedAll(SeedOne(s, Head(cs)), Tail(cs))

\* IsCandidate testing flags & (_ANC_OF_1 | _ANC_OF_2) instead of equality
IsCandidateEither(flags) ==
    (HasFlag(flags, ANC_OF_1) \/ HasFlag(flags, ANC_OF_2)) /\ ~HasFlag(flags, LCA)

\* lines 46 and 48: the popped commit is a new candidate
IsCandidate(flags) ==
    flags = BitOr(ANC_OF_1, ANC_OF_2) /\ ~HasFlag(flags, LCA)

\* lines 57-62, one pass of "for pcmt in parents"
PropagateOne(s, pcmt, flags) ==
    [s EXCEPT !.cstates =
                  IF pcmt \in DOMAIN s.cstates
                  THEN [s.cstates EXCEPT ![pcmt] = BitOr(@, flags)]
                  ELSE (pcmt :> flags) @@ s.cstates,
              !.wlst = Append(s.wlst, pcmt)]

\* lines 55-62
RECURSIVE Propagate(_, _, _)
Propagate(s, ps, flags) ==
    IF ps = <<>> THEN s
    ELSE Propagate(PropagateOne(s, Head(ps), flags), Tail(ps), flags)

\* LoopBody with line 54 moved above line 50: _DNC is stored on the candidate
LoopBodyDncStored(g, s) ==
    LET cmt == Head(s.wlst)
        popped == s.cstates[cmt]
        found == IsCandidate(popped)
        flags == IF found THEN BitOr(BitOr(popped, LCA), DNC) ELSE popped
        s1 == [cstates |-> [s.cstates EXCEPT ![cmt] = flags],
               wlst |-> Tail(s.wlst),
               cands |-> IF found THEN Append(s.cands, cmt) ELSE s.cands]
    IN  Propagate(s1, lookup_parents(g, cmt), flags)

\* LoopBody reading wlst[0] where line 44 pops it
LoopBodyNoPop(g, s) ==
    LET cmt == Head(s.wlst)
        popped == s.cstates[cmt]
        found == IsCandidate(popped)
        stored == IF found THEN BitOr(popped, LCA) ELSE popped
        flags == IF found THEN BitOr(stored, DNC) ELSE popped
        s1 == [cstates |-> [s.cstates EXCEPT ![cmt] = stored],
               wlst |-> s.wlst,
               cands |-> IF found THEN Append(s.cands, cmt) ELSE s.cands]
    IN  Propagate(s1, lookup_parents(g, cmt), flags)

\* lines 44-62, one pass of the while loop
LoopBody(g, s) ==
    LET cmt == Head(s.wlst)
        popped == s.cstates[cmt]
        found == IsCandidate(popped)
        \* line 50 stores flags | _LCA; line 54 adds _DNC to the local only
        stored == IF found THEN BitOr(popped, LCA) ELSE popped
        flags == IF found THEN BitOr(stored, DNC) ELSE popped
        s1 == [cstates |-> [s.cstates EXCEPT ![cmt] = stored],
               wlst |-> Tail(s.wlst),
               cands |-> IF found THEN Append(s.cands, cmt) ELSE s.cands]
    IN  Propagate(s1, lookup_parents(g, cmt), flags)

\* lines 65-69
Results(s) ==
    SelectSeq(s.cands, LAMBDA cmt : ~HasFlag(s.cstates[cmt], DNC))

\* lines 43-62, the whole while loop
RECURSIVE RunLoop(_, _)
RunLoop(g, s) ==
    IF has_candidates(s.wlst, s.cstates) THEN RunLoop(g, LoopBody(g, s)) ELSE s

\* _find_lcas(lookup_parents, c1, c2s) as a function of its inputs
find_lcas(g, first, others) ==
    Results(RunLoop(g, SeedAll(StartWork(first), others)))

\* find_merge_base, lines 72-92, on commit_ids
find_merge_base(g, commit_ids) ==
    IF commit_ids = <<>> THEN <<>>
    ELSE IF ~(Len(commit_ids) > 1) THEN <<Head(commit_ids)>>
    ELSE IF Head(commit_ids) \in Range(Tail(commit_ids)) THEN <<Head(commit_ids)>>
    ELSE find_lcas(g, Head(commit_ids), Tail(commit_ids))

(***************************************************************************)
(* One call of _find_lcas, step by step.                                   *)
(***************************************************************************)
Work == [cstates |-> cstates, wlst |-> wlst, cands |-> cands]

SetWork(s) ==
    /\ cstates' = s.cstates
    /\ wlst' = s.wlst
    /\ cands' = s.cands

\* the inputs: two commits of a graph of NumCommits commits, or up to
\* 1 + MaxOthers commits of a graph of NumCommitsN commits
Init ==
    /\ \/ /\ parents \in Graphs(NumCommits)
          /\ c1 \in 1..NumCommits
          /\ c2s \in [1..1 -> 1..NumCommits]
       \/ /\ parents \in Graphs(NumCommitsN)
          /\ c1 \in 1..NumCommitsN
          /\ c2s \in UNION {[1..n -> 1..NumCommitsN] : n \in 2..MaxOthers}
    /\ NoSearch
    /\ NoMergeTree
    /\ NoMerge
    /\ k = 0
    /\ lcas = <<>>
    /\ NoMerge3Way
    /\ pc = "start"

\* lines 33-36
Start ==
    /\ pc = "start"
    /\ SetWork(StartWork(c1))
    /\ k' = 1
    /\ pc' = "seed"
    /\ UNCHANGED <<treeVars, driverVars, queryVars, results, lcas, fileVars, mergeVars>>

\* lines 37-39, one pass
Seed ==
    /\ pc = "seed"
    /\ SetWork(SeedOne(Work, c2s[k]))
    /\ k' = k + 1
    /\ pc' = IF k = Len(c2s) THEN "loop" ELSE "seed"
    /\ UNCHANGED <<treeVars, driverVars, queryVars, results, lcas, fileVars, mergeVars>>

\* lines 43-62, one pass
Loop ==
    /\ pc = "loop"
    /\ has_candidates(wlst, cstates)
    /\ SetWork(LoopBody(parents, Work))
    /\ UNCHANGED <<treeVars, driverVars, queryVars, results, k, lcas, fileVars, mergeVars, pc>>

\* lines 43 (the loop ends) and 64-69
Finish ==
    /\ pc = "loop"
    /\ ~has_candidates(wlst, cstates)
    /\ results' = Results(Work)
    /\ pc' = "done"
    /\ UNCHANGED <<treeVars, driverVars, queryVars, cstates, wlst, cands, k, lcas, fileVars, mergeVars>>

Next == Start \/ Seed \/ Loop \/ Finish

Spec == Init /\ [][Next]_vars

\* the call runs on: Python executes the next statement
FairSpec == Spec /\ WF_vars(Next)

(***************************************************************************)
(* Ancestry in a parent graph, for stating the properties.                 *)
(***************************************************************************)
\* c and everything reachable from c through parents
RECURSIVE Ancestors(_, _)
Ancestors(g, c) ==
    {c} \cup UNION {Ancestors(g, g[c][i]) : i \in DOMAIN g[c]}

ProperAncestor(g, a, b) == a # b /\ a \in Ancestors(g, b)

CommonAncestors(g, cs) ==
    {x \in DOMAIN g : \A c \in cs : x \in Ancestors(g, c)}

\* the common ancestors none of whose proper descendants is a common ancestor
LowestCommonAncestors(g, cs) ==
    {x \in CommonAncestors(g, cs) :
        \A y \in CommonAncestors(g, cs) : ~ProperAncestor(g, x, y)}

\* ancestors of some commit of the list cs
AncestorsOfAny(g, cs) == UNION {Ancestors(g, cs[i]) : i \in DOMAIN cs}

\* NumPaths(g, c): the parent paths that start at c, the empty path included;
\* PathsLeft(g, w): those that start at the entries of the list w
RECURSIVE NumPaths(_, _), PathsLeft(_, _)
NumPaths(g, c) == 1 + PathsLeft(g, g[c])

PathsLeft(g, w) ==
    IF w = <<>> THEN 0 ELSE NumPaths(g, Head(w)) + PathsLeft(g, Tail(w))

PairQuery == Len(c2s) = 1

(***************************************************************************)
(* Properties of _find_lcas.                                               *)
(***************************************************************************)
\* C1: with two inputs c1, c2, no returned id is a proper ancestor of
\* another returned id.
C1_NoResultIsAncestorOfAnother ==
    (pc = "done" /\ PairQuery) =>
        \A a, b \in Range(results) : ~ProperAncestor(parents, a, b)

\* C2: every returned id is an ancestor of every input c1, c2..cn, an input
\* counting as its own ancestor.
C2_ResultsAncestorsOfEveryInput ==
    pc = "done" =>
        \A r \in Range(results) :
            /\ r \in Ancestors(parents, c1)
            /\ \A i \in DOMAIN c2s : r \in Ancestors(parents, c2s[i])

\* C2 as amended: every returned id is an ancestor of c1 and of at least
\* one of c2..cn; with two inputs that is every input.
C2_ResultsAncestorsOfFirstAndSomeOther ==
    pc = "done" =>
        \A r \in Range(results) :
            /\ r \in Ancestors(parents, c1)
            /\ \E i \in DOMAIN c2s : r \in Ancestors(parents, c2s[i])
            /\ PairQuery => r \in Ancestors(parents, c2s[1])

\* a search of three or more inputs has returned an id that is not an
\* ancestor of all of them
C2_Witness ==
    /\ pc = "done"
    /\ Len(c2s) >= 2
    /\ \E r \in Range(results), i \in DOMAIN c2s :
          r \notin Ancestors(parents, c2s[i])

\* C3: when one of the two inputs is a proper ancestor of the other, the
\* result is exactly that ancestor, whichever of the two is given first.
C3_AncestorInputIsTheResult ==
    (pc = "done" /\ PairQuery) =>
        /\ ProperAncestor(parents, c2s[1], c1) => results = <<c2s[1]>>
        /\ ProperAncestor(parents, c1, c2s[1]) => results = <<c1>>

\* C4: with two different inputs, every lowest common ancestor of c1 and c2
\* is among the returned ids.
C4_LowestCommonAncestorsReturned ==
    (pc = "done" /\ PairQuery /\ c1 # c2s[1]) =>
        LowestCommonAncestors(parents, {c1, c2s[1]}) \subseteq Range(results)

\* a criss-cross history has been searched and both of its lowest common
\* ancestors returned
C4_Witness ==
    /\ pc = "done"
    /\ PairQuery
    /\ c1 # c2s[1]
    /\ Cardinality(LowestCommonAncestors(parents, {c1, c2s[1]})) = 2
    /\ LowestCommonAncestors(parents, {c1, c2s[1]}) \subseteq Range(results)

\* C5: in every state a commit carries ANC_OF_1 only if it is c1 or is
\* reachable from c1, and ANC_OF_2 only if it is one of c2..cn or reachable
\* from one; every candidate carries both, and when c1 shares no ancestor
\* with any of c2..cn the result is empty.
C5_FlagsMeanAncestry ==
    /\ \A c \in DOMAIN cstates :
          /\ HasFlag(cstates[c], ANC_OF_1) => c \in Ancestors(parents, c1)
          /\ HasFlag(cstates[c], ANC_OF_2) => c \in AncestorsOfAny(parents, c2s)
    /\ \A i \in DOMAIN cands :
          /\ HasFlag(cstates[cands[i]], ANC_OF_1)
          /\ HasFlag(cstates[cands[i]], ANC_OF_2)
    /\ Range(results) \subseteq Range(cands)
    /\ (pc = "done" /\ Ancestors(parents, c1) \cap AncestorsOfAny(parents, c2s) = {})
          => results = <<>>

\* a search of inputs without a shared ancestor has walked to their parents
\* and ended
C5_Witness ==
    /\ pc = "done"
    /\ Ancestors(parents, c1) \cap AncestorsOfAny(parents, c2s) = {}
    /\ results = <<>>
    /\ \E c \in DOMAIN cstates : c # c1 /\ c \notin Range(c2s)

\* C6: when c1 is among c2..cn, the search returns exactly [c1], and so
\* does find_merge_base on the same commits.
C6_SelfQueryReturnsSelf ==
    (pc = "done" /\ c1 \in Range(c2s)) =>
        /\ results = <<c1>>
        /\ find_merge_base(parents, <<c1>> \o c2s) = <<c1>>

\* C7: the while loop ends and the result is returned; every pass of the
\* loop leaves fewer parent paths to walk from the working list.
C7_Terminates ==
    /\ <>(pc = "done")
    /\ [][(pc = "loop" /\ pc' = "loop") =>
            PathsLeft(parents, wlst') < PathsLeft(parents, wlst)]_vars

\* the loop has ended on a working list that still holds commits, one of
\* them more than once
C7_Witness ==
    /\ pc = "done"
    /\ \E i, j \in DOMAIN wlst : i # j /\ wlst[i] = wlst[j]

(***************************************************************************)
(* The octopus iteration of tests/test_graph.py, test_octopus, lines       *)
(* 131-141: lcas = [A]; for each further input cmt, lcas becomes the       *)
(* concatenation of _find_lcas(lookup_parents, cmt, [ca]) for ca in lcas.  *)
(***************************************************************************)
\* the graph of test_octopus, lines 113-129, its commits numbered
\* '2' = 1, '1' = 2, A3..A = 3..6, B3..B = 7..10, C4..C = 11..15
GitDocsGraph ==
    << <<>>, <<1>>,
       <<2>>, <<3>>, <<4>>, <<5>>,
       <<2>>, <<7>>, <<8>>, <<9>>,
       <<1>>, <<11>>, <<12>>, <<13>>, <<14>> >>

GitDocsA == 6
GitDocsB == 10
GitDocsC == 15
GitDocsBase == 1

\* lines 136-139: next_lcas for one cmt
RECURSIVE NextLcas(_, _, _)
NextLcas(g, cmt, cas) ==
    IF cas = <<>> THEN <<>>
    ELSE find_lcas(g, cmt, <<Head(cas)>>) \o NextLcas(g, cmt, Tail(cas))

\* lines 133-134: lcas = [A], others = the further inputs; the graph is one
\* of NumCommits commits, or the graph of the test with its inputs A, B, C
OctopusInit ==
    /\ \/ /\ parents \in Graphs(NumCommits)
          /\ c1 \in 1..NumCommits
          /\ c2s \in UNION {[1..n -> 1..NumCommits] : n \in 1..MaxOthers}
       \/ /\ parents = GitDocsGraph
          /\ c1 = GitDocsA
          /\ c2s = <<GitDocsB, GitDocsC>>
    /\ NoSearch
    /\ NoMergeTree
    /\ NoMerge
    /\ k = 1
    /\ lcas = <<c1>>
    /\ NoMerge3Way
    /\ pc = "octopus"

\* lines 135-140, one pass of "for cmt in others"
OctopusStep ==
    /\ pc = "octopus"
    /\ lcas' = NextLcas(parents, c2s[k], lcas)
    /\ k' = k + 1
    /\ pc' = IF k = Len(c2s) THEN "octopus_done" ELSE "octopus"
    /\ UNCHANGED <<treeVars, driverVars, queryVars, searchVars, fileVars, mergeVars>>

OctopusNext == OctopusStep

OctopusSpec == OctopusInit /\ [][OctopusNext]_vars

\* C8: every id of the final lcas is a common ancestor of all inputs, none
\* of them is a proper ancestor of another, and on the graph of the git
\* documentation with inputs A, B, C the final lcas are exactly {'2'}.
C8_OctopusLowestCommonAncestors ==
    pc = "octopus_done" =>
        /\ Range(lcas) \subseteq CommonAncestors(parents, {c1} \cup Range(c2s))
        /\ \A a, b \in Range(lcas) : ~ProperAncestor(parents, a, b)
        /\ parents = GitDocsGraph => Range(lcas) = {GitDocsBase}

(***************************************************************************)
(* Merge3Way, diff3merge.py.  A file is the list of its lines as readlines *)
(* returns them, each line a string that ends with its terminator; a text  *)
(* is a string.                                                            *)
(***************************************************************************)
\* longest file, in lines
MaxLines == 3

LineAlphabet == {"a\n", "b\n"}

Files == UNION {[1..n -> LineAlphabet] : n \in 0..MaxLines}

\* longer files <<ancestor, alice, bob>>: edits of the two sides in different
\* places, edits of the two sides in the same place, the same edit on both
\* sides, and lines added by both sides behind a first line all three share
LongFiles ==
    { << <<"a\n", "b\n", "c\n", "d\n">>,
         <<"A\n", "b\n", "c\n", "d\n">>,
         <<"a\n", "b\n", "c\n", "D\n">> >>,
      << <<"a\n", "b\n", "c\n">>,
         <<"a\n", "X\n", "c\n">>,
         <<"a\n", "Y\n", "c\n">> >>,
      << <<"a\n", "b\n", "c\n">>,
         <<"a\n", "c\n">>,
         <<"a\n", "b\n", "X\n", "c\n">> >>,
      << <<"a\n", "b\n">>,
         <<"a\n", "Z\n">>,
         <<"a\n", "Z\n">> >>,
      << <<"a\n", "b\n">>,
         <<"a\n", "a\n", "b\n">>,
         <<"a\n", "c\n", "a\n", "b\n">> >> }

\* the files that Merge3Way is given
Inputs == (Files \X Files \X Files) \cup LongFiles

\* the paths given to Merge3Way, which label the conflict hunks (lines 28-29)
a_file == "alice"
b_file == "bob"

None == 0

\* ''.join(lines)
RECURSIVE Join(_)
Join(lines) ==
    IF lines = <<>> THEN "" ELSE Head(lines) \o Join(Tail(lines))

\* lines[lo:hi] for 0 <= lo and 0 <= hi
Slice(lines, lo, hi) ==
    SubSeq(lines, lo + 1, IF hi < Len(lines) THEN hi ELSE Len(lines))

(***************************************************************************)
(* ndiff of the standard library, called at line 58, by the first two      *)
(* characters of each line it yields: "  " for a line of both files, "- "  *)
(* for a line of olines only, "+ " for a line of dlines only.  The lines   *)
(* of both files are the matching blocks of difflib.SequenceMatcher: the   *)
(* longest block of equal lines, of the longest ones the one that starts   *)
(* earliest in olines and then earliest in dlines, and so on to its left   *)
(* and to its right.  Lines between two blocks come out as "- " and "+ "   *)
(* lines, whose order does not change what ndiff_matches computes.         *)
(***************************************************************************)
\* the blocks <<i, j, size>> of equal lines olines[i..], dlines[j..] within
\* olines[alo..ahi] and dlines[blo..bhi]
Blocks(olines, dlines, alo, ahi, blo, bhi) ==
    {t \in (alo..ahi) \X (blo..bhi) \X (1..(ahi - alo + 1)) :
        /\ t[1] + t[3] - 1 <= ahi
        /\ t[2] + t[3] - 1 <= bhi
        /\ \A d \in 0..(t[3] - 1) : olines[t[1] + d] = dlines[t[2] + d]}

\* SequenceMatcher.find_longest_match on ranges that share a line
find_longest_match(olines, dlines, alo, ahi, blo, bhi) ==
    LET blocks == Blocks(olines, dlines, alo, ahi, blo, bhi)
    IN  CHOOSE t \in blocks :
            \A u \in blocks :
                \/ t[3] > u[3]
                \/ /\ t[3] = u[3]
                   /\ \/ t[1] < u[1]
                      \/ t[1] = u[1] /\ t[2] <= u[2]

\* n lines of the diff that begin with tag
Tagged(n, tag) == [i \in 1..n |-> tag]

RECURSIVE DiffRange(_, _, _, _, _, _)
DiffRange(olines, dlines, alo, ahi, blo, bhi) ==
    IF Blocks(olines, dlines, alo, ahi, blo, bhi) = {}
    THEN Tagged(ahi - alo + 1, "- ") \o Tagged(bhi - blo + 1, "+ ")
    ELSE LET m == find_longest_match(olines, dlines, alo, ahi, blo, bhi)
         IN  DiffRange(olines, dlines, alo, m[1] - 1, blo, m[2] - 1)
             \o Tagged(m[3], "  ")
             \o DiffRange(olines, dlines, m[1] + m[3], ahi, m[2] + m[3], bhi)

ndiff(olines, dlines) ==
    DiffRange(olines, dlines, 1, Len(olines), 1, Len(dlines))

\* lines 58-67: the loop over the lines of the diff
RECURSIVE ScanDiff(_, _, _, _)
ScanDiff(diff, ol, dl, matches) ==
    IF diff = <<>> THEN matches
    ELSE LET dt == Head(diff)
         IN  IF dt = "  "
             THEN ScanDiff(Tail(diff), ol + 1, dl + 1, ((ol + 1) :> (dl + 1)) @@ matches)
             ELSE IF dt = "+ " THEN ScanDiff(Tail(diff), ol, dl + 1, matches)
             ELSE IF dt = "- " THEN ScanDiff(Tail(diff), ol + 1, dl, matches)
             ELSE ScanDiff(Tail(diff), ol, dl, matches)

\* ndiff_matches, lines 54-68, on the diff that ndiff yielded
ndiff_matches(diff) == ScanDiff(diff, 0, 0, <<>>)

\* lines 101-105
inbounds(i) ==
    \/ (on + i) <= Len(o_lines)
    \/ (an + i) <= Len(a_lines)
    \/ (bn + i) <= Len(b_lines)

\* lines 107-110
ismatch(matchdict, offset, i) ==
    IF (on + i) \in DOMAIN matchdict
    THEN matchdict[on + i] = offset + i
    ELSE FALSE

\* lines 113-119, from the value i of the loop on
RECURSIVE MismatchFrom(_)
MismatchFrom(i) ==
    IF inbounds(i) /\ ismatch(a_matches, an, i) /\ ismatch(b_matches, bn, i)
    THEN MismatchFrom(i + 1)
    ELSE IF inbounds(i) THEN i ELSE None

find_next_mismatch == MismatchFrom(1)

\* the loop of lines 123-126 stopping at a line that either side matches
RECURSIVE MatchFromEither(_)
MatchFromEither(ov) ==
    IF ov > Len(o_lines) THEN ov
    ELSE IF ov \in DOMAIN a_matches \/ ov \in DOMAIN b_matches THEN ov
    ELSE MatchFromEither(ov + 1)

\* lines 123-126, from the value ov of the loop on
RECURSIVE MatchFrom(_)
MatchFrom(ov) ==
    IF ov > Len(o_lines) THEN ov
    ELSE IF ov \in DOMAIN a_matches /\ ov \in DOMAIN b_matches THEN ov
    ELSE MatchFrom(ov + 1)

\* find_next_match starting its search at line on where line 122 starts at
\* on + 1
find_next_match_from_cursor ==
    LET ov == MatchFrom(on)
    IN  << ov,
           IF ov \in DOMAIN a_matches THEN a_matches[ov] ELSE None,
           IF ov \in DOMAIN b_matches THEN b_matches[ov] ELSE None >>

\* lines 121-132
find_next_match ==
    LET ov == MatchFrom(on + 1)
    IN  << ov,
           IF ov \in DOMAIN a_matches THEN a_matches[ov] ELSE None,
           IF ov \in DOMAIN b_matches THEN b_matches[ov] ELSE None >>

\* the conflict hunk with a separator line that lacks its trailing space
ConflictChunkBareSeparator(ac, bc) ==
    "<<<<<<< " \o a_file \o "\n" \o ac \o "=======\n" \o bc
        \o ">>>>>>> " \o b_file \o "\n"

\* lines 146-150: the conflict hunk cc
ConflictChunk(ac, bc) ==
    "<<<<<<< " \o a_file \o "\n" \o ac \o "======= \n" \o bc
        \o ">>>>>>> " \o b_file \o "\n"

\* Resolve taking this side's unchanged text where only the other changed
ResolveKeepsOwn(oc, ac, bc) ==
    IF oc = ac /\ oc = bc THEN oc
    ELSE IF oc = ac THEN ac
    ELSE IF oc = bc THEN bc
    ELSE ConflictChunk(ac, bc)

\* lines 138-151: the chunk that write_chunk appends
Resolve(oc, ac, bc) ==
    IF oc = ac /\ oc = bc THEN oc
    ELSE IF oc = ac THEN bc
    ELSE IF oc = bc THEN ac
    ELSE ConflictChunk(ac, bc)

\* write_chunk, lines 134-151: self.chunks afterwards
write_chunk(o_range, a_range, b_range) ==
    LET oc == Join(Slice(o_lines, o_range[1], o_range[2]))
        ac == Join(Slice(a_lines, a_range[1], a_range[2]))
        bc == Join(Slice(b_lines, b_range[1], b_range[2]))
    IN  Append(chunks, Resolve(oc, ac, bc))

\* emit_chunk moving the cursors to o, a, b where line 157 moves them to
\* the lines before
emit_chunk_to_line(o, a, b) ==
    /\ chunks' = write_chunk(<<on, o - 1>>, <<an, a - 1>>, <<bn, b - 1>>)
    /\ on' = o
    /\ an' = a
    /\ bn' = b

\* emit_chunk, lines 153-157
emit_chunk(o, a, b) ==
    /\ chunks' = write_chunk(<<on, o - 1>>, <<an, a - 1>>, <<bn, b - 1>>)
    /\ on' = o - 1
    /\ an' = a - 1
    /\ bn' = b - 1

\* emit_final_chunk with ranges that end at len(lines) - 1 where lines
\* 160-162 end them at len(lines) + 1
emit_final_chunk_short ==
    /\ chunks' = write_chunk(<<on, Len(o_lines) - 1>>,
                             <<an, Len(a_lines) - 1>>,
                             <<bn, Len(b_lines) - 1>>)
    /\ UNCHANGED <<on, an, bn>>

\* emit_final_chunk, lines 159-162
emit_final_chunk ==
    /\ chunks' = write_chunk(<<on, Len(o_lines) + 1>>,
                             <<an, Len(a_lines) + 1>>,
                             <<bn, Len(b_lines) + 1>>)
    /\ UNCHANGED <<on, an, bn>>

\* Merge3Way.__init__, lines 26-52, with use_myers false
Diff3Init ==
    /\ \E files \in Inputs :
          /\ o_lines = files[1]
          /\ a_lines = files[2]
          /\ b_lines = files[3]
    /\ a_matches = ndiff_matches(ndiff(o_lines, a_lines))
    /\ b_matches = ndiff_matches(ndiff(o_lines, b_lines))
    /\ chunks = <<>>
    /\ on = 0
    /\ an = 0
    /\ bn = 0
    /\ res = ""
    /\ parents = <<>>
    /\ c1 = 0
    /\ c2s = <<>>
    /\ NoSearch
    /\ NoMergeTree
    /\ NoMerge
    /\ k = 0
    /\ lcas = <<>>
    /\ pc = "generate_chunks"

\* generate_chunks, lines 98-99: a run of matching lines is emitted
EmitStable ==
    /\ pc = "generate_chunks"
    /\ LET i == find_next_mismatch
       IN  /\ i # None
           /\ i # 1
           /\ emit_chunk(on + i, an + i, bn + i)
    /\ UNCHANGED <<treeVars, driverVars, queryVars, searchVars, k, lcas, fileVars, res, pc>>

\* generate_chunks, lines 91-94: the lines up to the next match are emitted
EmitChange ==
    /\ pc = "generate_chunks"
    /\ find_next_mismatch = 1
    /\ LET m == find_next_match
       IN  /\ m[2] # None /\ m[3] # None
           /\ emit_chunk(m[1], m[2], m[3])
    /\ UNCHANGED <<treeVars, driverVars, queryVars, searchVars, k, lcas, fileVars, res, pc>>

\* generate_chunks, lines 88-90 and 95-97: the rest is emitted, the loop ends
EmitFinal ==
    /\ pc = "generate_chunks"
    /\ \/ find_next_mismatch = None
       \/ /\ find_next_mismatch = 1
          /\ LET m == find_next_match IN ~(m[2] # None /\ m[3] # None)
    /\ emit_final_chunk
    /\ pc' = "join"
    /\ UNCHANGED <<treeVars, driverVars, queryVars, searchVars, k, lcas, fileVars, res>>

\* merge, lines 166-167
MergeJoin ==
    /\ pc = "join"
    /\ res' = Join(chunks)
    /\ pc' = "merged"
    /\ UNCHANGED <<treeVars, driverVars, queryVars, searchVars, k, lcas, fileVars, on, an, bn, chunks>>

Diff3Next == EmitStable \/ EmitChange \/ EmitFinal \/ MergeJoin

Diff3Spec == Diff3Init /\ [][Diff3Next]_vars

(***************************************************************************)
(* Properties of the merge.                                                *)
(***************************************************************************)
\* the texts of the runs of consecutive lines of a file
Texts(lines) ==
    {Join(SubSeq(lines, i, j)) : i \in 1..(Len(lines) + 1), j \in 0..Len(lines)}

\* the chunk is a conflict hunk of this merge
IsConflictHunk(chunk) ==
    \E ac \in Texts(a_lines), bc \in Texts(b_lines) : chunk = ConflictChunk(ac, bc)

NoConflictHunk == \A n \in DOMAIN chunks : ~IsConflictHunk(chunks[n])

\* C9: if this equals base, the merged output is other and holds no
\* conflict hunk; if other equals base, it is this and holds none.
C9_UnchangedSideYieldsOtherSide ==
    pc = "merged" =>
        /\ a_lines = o_lines => (res = Join(b_lines) /\ NoConflictHunk)
        /\ b_lines = o_lines => (res = Join(a_lines) /\ NoConflictHunk)

\* a merge has ended in which only one side differs from the base
C9_Witness ==
    /\ pc = "merged"
    /\ a_lines = o_lines
    /\ b_lines # o_lines
    /\ Len(chunks) > 1
    /\ res = Join(b_lines)

\* C10: if this equals other, the merged output is this and holds no
\* conflict hunk, whatever the base is.
C10_SameEditMergesClean ==
    (pc = "merged" /\ a_lines = b_lines) =>
        (res = Join(a_lines) /\ NoConflictHunk)

\* the text of the lines that the chunk written in this step covers in a
\* file, whose cursor moves from lo to hi (the last chunk runs to the end)
ChunkText(lines, lo, hi) ==
    Join(Slice(lines, lo, IF pc' = "join" THEN Len(lines) + 1 ELSE hi))

\* C11: every chunk written appends exactly one piece to chunks, chosen over
\* the joined line ranges oc, ac, bc: oc when all three are equal, bc when
\* only other differs from oc, ac when only this differs from oc, and
\* otherwise the hunk "<<<<<<< alice\n" ac "======= \n" bc ">>>>>>> bob\n"
\* with ac and bc verbatim.
C11_WriteChunkResolutionTable ==
    [][chunks' # chunks =>
        LET oc == ChunkText(o_lines, on, on')
            ac == ChunkText(a_lines, an, an')
            bc == ChunkText(b_lines, bn, bn')
            piece == chunks'[Len(chunks')]
        IN  /\ Len(chunks') = Len(chunks) + 1
            /\ SubSeq(chunks', 1, Len(chunks)) = chunks
            /\ (oc = ac /\ oc = bc) => piece = oc
            /\ (oc = ac /\ oc # bc) => piece = bc
            /\ (oc = bc /\ oc # ac) => piece = ac
            /\ (oc # ac /\ oc # bc) =>
                  piece = "<<<<<<< " \o a_file \o "\n" \o ac \o "======= \n"
                              \o bc \o ">>>>>>> " \o b_file \o "\n"]_vars

\* a merge has ended that wrote a chunk of shared lines and then a conflict
\* hunk
C11_Witness ==
    /\ pc = "merged"
    /\ Len(chunks) = 2
    /\ chunks[1] = "a\n"
    /\ chunks[2] = "<<<<<<< alice\nb\n======= \n>>>>>>> bob\n"

\* the side with these matches differs from the base only before base line s:
\* from s on every base line is matched, and no line is added behind s
ChangesBefore(matches, lines, s) ==
    \A j \in s..Len(o_lines) :
        /\ j \in DOMAIN matches
        /\ matches[j] - j = Len(lines) - Len(o_lines)

\* the side with these matches differs from the base only after base line s:
\* up to s every base line is matched in place
ChangesAfter(matches, s) ==
    \A j \in 1..s : j \in DOMAIN matches /\ matches[j] = j

\* the first side with its lines before base line s, then the second side
\* from base line s on
BothApplied(first, fmatches, second, s) ==
    Join(SubSeq(first, 1, fmatches[s] - 1)) \o Join(SubSeq(second, s, Len(second)))

AnyTexts == Texts(o_lines) \cup Texts(a_lines) \cup Texts(b_lines)

\* the three files begin with the same p lines and end with the same q
\* lines, and the two runs overlap in none of them
SharedEnds(p, q) ==
    /\ \A f \in {o_lines, a_lines, b_lines} : p + q <= Len(f)
    /\ SubSeq(a_lines, 1, p) = SubSeq(o_lines, 1, p)
    /\ SubSeq(b_lines, 1, p) = SubSeq(o_lines, 1, p)
    /\ SubSeq(a_lines, Len(a_lines) - q + 1, Len(a_lines))
          = SubSeq(o_lines, Len(o_lines) - q + 1, Len(o_lines))
    /\ SubSeq(b_lines, Len(b_lines) - q + 1, Len(b_lines))
          = SubSeq(o_lines, Len(o_lines) - q + 1, Len(o_lines))

\* the output begins with this text, within chunks that are no conflict hunk
BeginsCleanWith(text) ==
    \E n \in 0..Len(chunks) :
        /\ \A i \in 1..n : ~IsConflictHunk(chunks[i])
        /\ \E t \in AnyTexts : Join(SubSeq(chunks, 1, n)) = text \o t

\* the output ends with this text, within chunks that are no conflict hunk
EndsCleanWith(text) ==
    \E n \in 0..Len(chunks) :
        /\ \A i \in (n + 1)..Len(chunks) : ~IsConflictHunk(chunks[i])
        /\ \E t \in AnyTexts :
              Join(SubSeq(chunks, n + 1, Len(chunks))) = t \o text

\* C13: if the three files begin with the same whole lines P and end with
\* the same whole lines S, P and S overlapping in none of them, the merged
\* output begins with P and ends with S, outside any conflict hunk.
C13_SharedPrefixAndSuffixKept ==
    pc = "merged" =>
        \A p \in 0..Len(o_lines), q \in 0..Len(o_lines) :
            SharedEnds(p, q) =>
                /\ BeginsCleanWith(Join(SubSeq(o_lines, 1, p)))
                /\ EndsCleanWith(
                      Join(SubSeq(o_lines, Len(o_lines) - q + 1, Len(o_lines))))

(***************************************************************************)
(* merge_tree of merge.py: the three-way merge of trees.                   *)
(*                                                                         *)
(* A tree maps each path to the mode and blob id of its entry, which are   *)
(* None where the tree has no entry.  Paths are numbered in their sort     *)
(* order, file modes are the numbers git stores, and bytes are sequences   *)
(* of numbers below 256.                                                   *)
(***************************************************************************)
MaxPaths == 2

Paths == 1..MaxPaths

\* '%s' % path
PathName(path) == <<"a", "b", "c", "d">>[path]

\* 0o100644, 0o100755 and 0o120000
Modes == {33188, 33261, 40960}

\* the letter a, and a byte that no UTF-8 text holds
Bytes == {97, 255}

Contents == {<<b>> : b \in Bytes}

\* Blob.from_string(text).id: a number that no other text has
RECURSIVE BlobId(_)
BlobId(text) ==
    IF text = <<>> THEN 1
    ELSE 256 * BlobId(SubSeq(text, 1, Len(text) - 1)) + text[Len(text)]

\* text.decode('utf-8') succeeds, for texts of the bytes above
Utf8(text) == \A i \in DOMAIN text : text[i] < 128

TreeEntry(path, mode, sha) == [path |-> path, mode |-> mode, sha |-> sha]

\* the entry that stands for no entry
NULL_ENTRY == TreeEntry(None, None, None)

CHANGE_ADD == "add"
CHANGE_MODIFY == "modify"
CHANGE_DELETE == "delete"
CHANGE_RENAME == "rename"
CHANGE_COPY == "copy"
CHANGE_UNCHANGED == "unchanged"

TreeChange(type, old, new) == [type |-> type, old |-> old, new |-> new]

MergeConflict(this_entry, other_entry, base_entry, message) ==
    [this_entry |-> this_entry, other_entry |-> other_entry,
     base_entry |-> base_entry, message |-> message]

\* what a tree may hold at a path
Entries == [mode : Modes, sha : {BlobId(c) : c \in Contents}]

NoEntry == [mode |-> None, sha |-> None]

Trees == [Paths -> Entries \cup {NoEntry}]

\* the TreeEntry of a tree at a path
EntryAt(tree, path) == TreeEntry(path, tree[path].mode, tree[path].sha)

(***************************************************************************)
(* tree_changes(object_store, old tree, new tree), without the unchanged   *)
(* entries.  With a rename detector, a deleted path and an added path that *)
(* hold the same blob are one rename, and an added path that holds the     *)
(* blob of a path the old tree keeps is a copy.                            *)
(***************************************************************************)
Deleted(old, new) == {p \in Paths : old[p] # NoEntry /\ new[p] = NoEntry}

Added(old, new) == {p \in Paths : old[p] = NoEntry /\ new[p] # NoEntry}

Modified(old, new) ==
    {p \in Paths : old[p] # NoEntry /\ new[p] # NoEntry /\ old[p] # new[p]}

Least(S) == CHOOSE x \in S : \A y \in S : x <= y

\* the <<deleted path, added path>> pairs that the detector finds renamed
Renamed(old, new, detector) ==
    IF detector = None THEN {}
    ELSE {r \in Deleted(old, new) \X Added(old, new) :
            /\ old[r[1]].sha = new[r[2]].sha
            /\ r[2] = Least({a \in Added(old, new) : new[a].sha = old[r[1]].sha})
            /\ r[1] = Least({d \in Deleted(old, new) : old[d].sha = new[r[2]].sha})}

\* the added paths that the detector finds copied
Copied(old, new, detector) ==
    IF detector = None THEN {}
    ELSE {a \in Added(old, new) :
            /\ \A r \in Renamed(old, new, detector) : r[2] # a
            /\ \E p \in Paths : /\ old[p] # NoEntry
                                /\ new[p] # NoEntry
                                /\ old[p].sha = new[a].sha}

ChangeSet(old, new, detector) ==
    LET renamed == Renamed(old, new, detector)
        copied == Copied(old, new, detector)
    IN  {TreeChange(CHANGE_RENAME, EntryAt(old, r[1]), EntryAt(new, r[2])) :
            r \in renamed}
        \cup {TreeChange(CHANGE_COPY, NULL_ENTRY, EntryAt(new, a)) : a \in copied}
        \cup {TreeChange(CHANGE_ADD, NULL_ENTRY, EntryAt(new, a)) :
                a \in {x \in Added(old, new) :
                           x \notin copied /\ \A r \in renamed : r[2] # x}}
        \cup {TreeChange(CHANGE_DELETE, EntryAt(old, d), NULL_ENTRY) :
                d \in {x \in Deleted(old, new) : \A r \in renamed : r[1] # x}}
        \cup {TreeChange(CHANGE_MODIFY, EntryAt(old, p), EntryAt(new, p)) :
                p \in Modified(old, new)}

\* the order of the changes: by old path, or new path where there is no old
\* one, and then by new path
ChangeKey(change) ==
    << IF change.old.path = None THEN change.new.path ELSE change.old.path,
       IF change.new.path = None THEN change.old.path ELSE change.new.path >>

KeyBefore(x, y) == x[1] < y[1] \/ (x[1] = y[1] /\ x[2] <= y[2])

RECURSIVE Sorted(_)
Sorted(changes) ==
    IF changes = {} THEN <<>>
    ELSE LET first == CHOOSE c \in changes :
                          \A d \in changes : KeyBefore(ChangeKey(c), ChangeKey(d))
         IN  <<first>> \o Sorted(changes \ {first})

tree_changes(old, new, detector) == Sorted(ChangeSet(old, new, detector))

\* the dict {keys[i]: changes[i] for i in order}: a later change replaces an
\* earlier one of the same key
DictBy(changes, keys) ==
    [p \in {keys[i] : i \in DOMAIN changes} |->
        LET last == CHOOSE i \in DOMAIN changes :
                        /\ keys[i] = p
                        /\ \A j \in DOMAIN changes : keys[j] = p => j <= i
        IN  changes[last]]

\* lines 104-108.  An entry is a tuple of three fields and so is true, also
\* the entry that stands for no entry: no change is left out of either dict.
changes_this == tree_changes(common_tree, this_tree, None)

changes_this_by_common_path ==
    LET changes == changes_this
    IN  DictBy(changes, [i \in DOMAIN changes |-> changes[i].old.path])

changes_this_by_this_path ==
    LET changes == changes_this
    IN  DictBy(changes, [i \in DOMAIN changes |-> changes[i].new.path])

\* line 109
changes_other == tree_changes(common_tree, other_tree, None)

\* the file mergers: one returns the bytes of this, one the bytes of this
\* and then those of other
merge_ours == 1
merge_union == 2
FileMergers == {merge_ours, merge_union}

\* a rename detector
RenameDetector == 1

\* file_merger(this, other, base)[0]
CallMerger(merger, this_bytes, other_bytes, base_bytes) ==
    IF merger = merge_ours THEN this_bytes ELSE this_bytes \o other_bytes

\* what handling one change of OTHER comes to: nothing, an item yielded, or
\* an exception; and the object store afterwards
Outcome(kind, item, store) == [kind |-> kind, item |-> item, store |-> store]

\* lines 79-85: the merged mode, or None where NotImplementedError is raised
MergedMode(this_entry, other_entry, base_entry) ==
    IF this_entry.mode \in {base_entry.mode, other_entry.mode}
    THEN other_entry.mode
    ELSE IF base_entry.mode # other_entry.mode THEN None
    ELSE this_entry.mode

\* _merge_entry, lines 62-86.  At line 68 other_entry is a TreeEntry, which
\* has no attribute old; line 76 decodes the merged text to print it.
merge_entry(new_path, this_entry, other_entry, base_entry) ==
    IF file_merger = None
    THEN Outcome("AttributeError", None, object_store)
    ELSE LET merged_text == CallMerger(file_merger,
                                       object_store[this_entry.sha],
                                       object_store[other_entry.sha],
                                       object_store[base_entry.sha])
             store == (BlobId(merged_text) :> merged_text) @@ object_store
             mode == MergedMode(this_entry, other_entry, base_entry)
         IN  IF ~Utf8(merged_text)
             THEN Outcome("UnicodeDecodeError", None, object_store)
             ELSE IF mode = None
             THEN Outcome("NotImplementedError", None, store)
             ELSE Outcome("yield",
                          TreeEntry(new_path, mode, BlobId(merged_text)), store)

\* a path that is yielded: a byte string, not an entry
PathItem(path) == [bytes |-> PathName(path)]

\* line 134: the delete marker
DeleteMarker(other_change) == TreeEntry(other_change.old.path, None, None)

\* lines 110-185: the body of the for loop on one change of OTHER
Handle(other_change) ==
    LET has_this_change ==
            other_change.old.path \in DOMAIN changes_this_by_common_path
        this_change == changes_this_by_common_path[other_change.old.path]
        conflict(message) ==
            Outcome("yield",
                    MergeConflict(this_change.new, other_change.new,
                                  other_change.old, message),
                    object_store)
    IN  IF has_this_change /\ this_change = other_change
        THEN Outcome("continue", None, object_store)
        ELSE IF other_change.type \in {CHANGE_ADD, CHANGE_COPY}
        THEN IF other_change.new.path \notin DOMAIN changes_this_by_this_path
             THEN Outcome("yield", PathItem(other_change.new.path), object_store)
             ELSE LET this_entry ==
                          changes_this_by_this_path[other_change.new.path]
                  IN  IF this_entry # other_change.new
                      THEN Outcome("yield",
                               MergeConflict(this_entry, other_change.new,
                                   other_change.old,
                                   "Both this and other add new file "
                                       \o PathName(other_change.new.path)),
                               object_store)
                      ELSE Outcome("continue", None, object_store)
        ELSE IF other_change.type = CHANGE_DELETE
        THEN IF has_this_change
                /\ this_change.type \notin {CHANGE_DELETE, CHANGE_UNCHANGED}
             THEN conflict(PathName(other_change.old.path)
                               \o " is deleted in other but modified in this")
             ELSE Outcome("yield", DeleteMarker(other_change), object_store)
        ELSE IF other_change.type = CHANGE_RENAME
        THEN IF has_this_change /\ this_change.type = CHANGE_RENAME
             THEN IF this_change.new.path # other_change.new.path
                  THEN conflict(PathName(other_change.old.path)
                           \o " was renamed by both sides ("
                           \o PathName(other_change.new.path) \o " / "
                           \o PathName(this_change.new.path) \o ")")
                  ELSE merge_entry(other_change.new.path, this_change.new,
                                   other_change.new, other_change.old)
             ELSE IF has_this_change /\ this_change.type = CHANGE_MODIFY
             THEN merge_entry(other_change.new.path, this_change.new,
                              other_change.new, other_change.old)
             ELSE IF has_this_change /\ this_change.type = CHANGE_DELETE
             THEN conflict(PathName(other_change.old.path)
                      \o " is deleted in this but renamed to "
                      \o PathName(other_change.new.path) \o " in other")
             ELSE IF has_this_change
             THEN Outcome("NotImplementedError", None, object_store)
             ELSE Outcome("yield", other_change.new, object_store)
        ELSE IF other_change.type = CHANGE_MODIFY
        THEN IF has_this_change /\ this_change.type = CHANGE_DELETE
             THEN conflict(PathName(other_change.old.path)
                               \o " is deleted in this but modified in other")
             ELSE IF has_this_change
                     /\ this_change.type \in {CHANGE_MODIFY, CHANGE_RENAME}
             THEN merge_entry(this_change.new.path, this_change.new,
                              other_change.new, other_change.old)
             ELSE IF has_this_change
             THEN Outcome("NotImplementedError", None, object_store)
             ELSE Outcome("yield", other_change.new, object_store)
        ELSE Outcome("NotImplementedError", None, object_store)

\* the object store before the merge: the blobs the trees refer to
InitialStore ==
    [sha \in {BlobId(c) : c \in Contents} |->
        CHOOSE c \in Contents : BlobId(c) = sha]

\* the entry of the common tree, where it has one
BaseEntry == [mode |-> 33188, sha |-> BlobId(<<97>>)]

BaseTrees == [Paths -> {BaseEntry, NoEntry}]

\* a call of merge_tree, lines 89-90, whose iterator is then run to its end
MergeTreeInit ==
    /\ common_tree \in BaseTrees
    /\ this_tree \in Trees
    /\ other_tree \in Trees
    /\ rename_detector \in {None, RenameDetector}
    /\ file_merger \in {None} \cup FileMergers
    /\ object_store = InitialStore
    /\ done = 0
    /\ yielded = <<>>
    /\ NoMerge
    /\ NoSearch
    /\ NoMerge3Way
    /\ parents = <<>>
    /\ c1 = 0
    /\ c2s = <<>>
    /\ k = 0
    /\ lcas = <<>>
    /\ pc = "merge_tree"

\* the change of OTHER that the for loop of line 109 handles next
other_change == changes_other[done + 1]

\* one pass of the for loop that yields an item
MergeTreeYield ==
    /\ pc = "merge_tree"
    /\ done < Len(changes_other)
    /\ Handle(other_change).kind = "yield"
    /\ yielded' = Append(yielded, Handle(other_change).item)
    /\ object_store' = Handle(other_change).store
    /\ done' = done + 1
    /\ UNCHANGED <<this_tree, other_tree, common_tree, rename_detector,
                   file_merger, driverVars, queryVars, searchVars, k, lcas,
                   fileVars, mergeVars, pc>>

\* one pass of the for loop that yields nothing, lines 112 and 119
MergeTreeContinue ==
    /\ pc = "merge_tree"
    /\ done < Len(changes_other)
    /\ Handle(other_change).kind = "continue"
    /\ done' = done + 1
    /\ UNCHANGED <<this_tree, other_tree, common_tree, rename_detector,
                   file_merger, object_store, yielded, driverVars, queryVars,
                   searchVars, k, lcas, fileVars, mergeVars, pc>>

\* one pass of the for loop that raises an exception, which ends merge_tree
MergeTreeRaise ==
    /\ pc = "merge_tree"
    /\ done < Len(changes_other)
    /\ Handle(other_change).kind \notin {"yield", "continue"}
    /\ object_store' = Handle(other_change).store
    /\ pc' = Handle(other_change).kind
    /\ UNCHANGED <<this_tree, other_tree, common_tree, rename_detector,
                   file_merger, done, yielded, driverVars, queryVars,
                   searchVars, k, lcas, fileVars, mergeVars>>

\* the for loop has handled every change of OTHER
MergeTreeReturn ==
    /\ pc = "merge_tree"
    /\ done = Len(changes_other)
    /\ pc' = "returned"
    /\ UNCHANGED <<treeVars, driverVars, queryVars, searchVars, k, lcas,
                   fileVars, mergeVars>>

MergeTreeNext ==
    MergeTreeYield \/ MergeTreeContinue \/ MergeTreeRaise \/ MergeTreeReturn

MergeTreeSpec == MergeTreeInit /\ [][MergeTreeNext]_vars

\* merge_tree has ended by an exception
Raised ==
    pc \in {"AttributeError", "NotImplementedError", "UnicodeDecodeError"}

\* merge_tree has ended, one way or the other
Ended == pc = "returned" \/ Raised

(***************************************************************************)
(* Properties of merge_tree.                                               *)
(***************************************************************************)
IsTreeEntry(item) == DOMAIN item = {"path", "mode", "sha"}

IsMergeConflict(item) ==
    DOMAIN item = {"this_entry", "other_entry", "base_entry", "message"}

\* a MergeConflict of this message has been yielded
ConflictYielded(message) ==
    \E i \in DOMAIN yielded :
        IsMergeConflict(yielded[i]) /\ yielded[i].message = message

\* this entry has been yielded
EntryYielded(entry) ==
    \E i \in DOMAIN yielded : IsTreeEntry(yielded[i]) /\ yielded[i] = entry

\* the side adds the path to the common tree
Adds(tree, path) == common_tree[path] = NoEntry /\ tree[path] # NoEntry

\* the side deletes the path of the common tree
Deletes(tree, path) == common_tree[path] # NoEntry /\ tree[path] = NoEntry

\* the side changes the entry of the common tree at the path
Modifies(tree, path) ==
    /\ common_tree[path] # NoEntry
    /\ tree[path] # NoEntry
    /\ tree[path] # common_tree[path]

\* C14: every item yielded is a TreeEntry or a MergeConflict, and when other
\* adds a path at which this has no entry, other's new TreeEntry of that
\* path is yielded.
C14_YieldsEntriesAndConflicts ==
    /\ \A i \in DOMAIN yielded :
          IsTreeEntry(yielded[i]) \/ IsMergeConflict(yielded[i])
    /\ pc = "returned" =>
          \A path \in Paths :
              (Adds(other_tree, path) /\ this_tree[path] = NoEntry)
                  => EntryYielded(EntryAt(other_tree, path))

\* C15: when this and other both add an entry at a path, the conflict "Both
\* this and other add new file P" is yielded for it if and only if the two
\* entries differ in mode or blob id.
C15_BothAddConflictIffDifferent ==
    pc = "returned" =>
        \A path \in Paths :
            (Adds(this_tree, path) /\ Adds(other_tree, path)) =>
                (ConflictYielded("Both this and other add new file "
                                     \o PathName(path))
                    <=> this_tree[path] # other_tree[path])

\* an item about the path has been yielded: an entry of the path, or a
\* conflict on the entry that the common tree has at the path
AnyYielded(path) ==
    \E i \in DOMAIN yielded :
        \/ IsTreeEntry(yielded[i]) /\ yielded[i].path = path
        \/ IsMergeConflict(yielded[i]) /\ yielded[i].base_entry.path = path

\* what merge_tree is to yield for a path that other deletes
DeleteOutcome(path) ==
    /\ Modifies(this_tree, path) =>
          /\ ConflictYielded(PathName(path)
                                 \o " is deleted in other but modified in this")
          /\ ~EntryYielded(TreeEntry(path, None, None))
    /\ this_tree[path] = common_tree[path] =>
          EntryYielded(TreeEntry(path, None, None))
    /\ Deletes(this_tree, path) => ~AnyYielded(path)

\* C16: for every path P that other deletes, merge_tree yields the conflict
\* "P is deleted in other but modified in this" and no delete marker if this
\* modified P, the delete marker TreeEntry(P, None, None) if this has no
\* change on P, and nothing for P if this deleted P too.
C16_DeleteByOther ==
    Ended =>
        \A path \in Paths : Deletes(other_tree, path) => DeleteOutcome(path)

\* the same of the calls that return
DeleteByOtherOnReturn ==
    pc = "returned" =>
        \A path \in Paths : Deletes(other_tree, path) => DeleteOutcome(path)

\* the paths that the side's entry of the common tree at the path is at
\* afterwards: the path itself if modified there, its new path if renamed
Targets(tree, path) ==
    {q \in Paths :
        \/ q = path /\ Modifies(tree, path)
        \/ <<path, q>> \in Renamed(common_tree, tree, rename_detector)}

\* the path needs a content merge: both sides modified it, differently, or
\* one side renamed it and the other modified it
NeedsContentMerge(path) ==
    \/ /\ Modifies(this_tree, path)
       /\ Modifies(other_tree, path)
       /\ this_tree[path] # other_tree[path]
    \/ /\ Targets(this_tree, path) # {}
       /\ Targets(other_tree, path) # {}
       /\ ~(Modifies(this_tree, path) /\ Modifies(other_tree, path))
       /\ Modifies(this_tree, path) \/ Modifies(other_tree, path)

\* C17: when a path needs a content merge and no file merger is given,
\* merge_tree yields the conflict "Conflict in P but no file merger
\* provided" for the path and does not fail.
C17_NoFileMergerYieldsConflict ==
    (Ended /\ file_merger = None) =>
        \A path \in Paths :
            NeedsContentMerge(path) =>
                /\ ~Raised
                /\ \E q \in Targets(this_tree, path) \cup Targets(other_tree, path) :
                      ConflictYielded("Conflict in " \o PathName(q)
                                          \o " but no file merger provided")

\* both sides changed the mode of the path, to different modes
ModeConflict(path) ==
    /\ Modifies(this_tree, path)
    /\ Modifies(other_tree, path)
    /\ this_tree[path].mode # common_tree[path].mode
    /\ other_tree[path].mode # common_tree[path].mode
    /\ this_tree[path].mode # other_tree[path].mode

\* C18: when both sides change the mode of a path that is merged, to modes
\* that differ from the base and from each other, merge_tree does not fail:
\* it yields a MergeConflict for the path and goes on to return.
C18_ModeConflictIsYielded ==
    (Ended /\ file_merger # None) =>
        \A path \in Paths :
            ModeConflict(path) =>
                /\ pc = "returned"
                /\ \E i \in DOMAIN yielded :
                      /\ IsMergeConflict(yielded[i])
                      /\ yielded[i].base_entry.path = path

\* the bytes that the file merger returns for the path
MergedBytes(path) ==
    CallMerger(file_merger, InitialStore[this_tree[path].sha],
               InitialStore[other_tree[path].sha],
               InitialStore[common_tree[path].sha])

\* C19: when both sides modify a path, differently, and a file merger is
\* given, merge_tree yields exactly one TreeEntry for the path; its blob id
\* is that of a blob of the bytes the file merger returned, which the object
\* store then holds; its mode is that of other if the mode of this is that
\* of the base or of other, and that of this if only this changed the mode.
C19_ModifyModifyYieldsMergedEntry ==
    (Ended /\ file_merger # None) =>
        \A path \in Paths :
            (/\ Modifies(this_tree, path)
             /\ Modifies(other_tree, path)
             /\ this_tree[path] # other_tree[path]) =>
                /\ Cardinality({i \in DOMAIN yielded :
                        IsTreeEntry(yielded[i]) /\ yielded[i].path = path}) = 1
                /\ \A i \in DOMAIN yielded :
                      (IsTreeEntry(yielded[i]) /\ yielded[i].path = path) =>
                          /\ yielded[i].sha = BlobId(MergedBytes(path))
                          /\ yielded[i].sha \in DOMAIN object_store
                          /\ object_store[yielded[i].sha] = MergedBytes(path)
                          /\ this_tree[path].mode \in
                                {common_tree[path].mode, other_tree[path].mode}
                                => yielded[i].mode = other_tree[path].mode
                          /\ (/\ this_tree[path].mode # common_tree[path].mode
                              /\ other_tree[path].mode = common_tree[path].mode)
                                => yielded[i].mode = this_tree[path].mode

(***************************************************************************)
(* merge of merge.py, lines 194-215, on two commits of a repository.       *)
(***************************************************************************)
\* the local merge_base, not yet assigned
Unbound == 0

\* the trees of the commits: no file, or one file at the first path
CommitTrees ==
    {t \in Trees : /\ \A path \in Paths : path > 1 => t[path] = NoEntry
                   /\ t[1] \in {NoEntry, BaseEntry,
                                 [mode |-> 33188, sha |-> BlobId(<<255>>)],
                                 [mode |-> 33261, sha |-> BlobId(<<97>>)]}}

\* a call merge(repo, [this_commit, other_commit], file_merger=...)
MergeInit ==
    /\ parents \in Graphs(NumCommitsN)
    /\ c1 \in 1..NumCommitsN
    /\ c2s \in [1..1 -> 1..NumCommitsN]
    /\ rename_detector = None
    /\ file_merger \in {None, merge_ours}
    /\ object_store = InitialStore
    /\ commit_trees \in [1..NumCommitsN -> CommitTrees]
    /\ merge_base = Unbound
    /\ conflicts = <<>>
    /\ lcas = <<>>
    /\ this_tree = <<>>
    /\ other_tree = <<>>
    /\ common_tree = <<>>
    /\ done = 0
    /\ yielded = <<>>
    /\ NoSearch
    /\ NoMerge3Way
    /\ k = 0
    /\ pc = "merge"

\* lines 198-200
MergeFindBase ==
    /\ pc = "merge"
    /\ lcas' = find_merge_base(parents, <<c1>> \o c2s)
    /\ merge_base' = IF lcas' # <<>> THEN lcas'[1] ELSE Unbound
    /\ pc' = "call"
    /\ UNCHANGED <<treeVars, commit_trees, conflicts, queryVars, searchVars, k,
                   fileVars, mergeVars>>

\* lines 203-210: the arguments are read and merge_tree is called
MergeCallTree ==
    /\ pc = "call"
    /\ merge_base # Unbound
    /\ this_tree' = commit_trees[c1]
    /\ other_tree' = commit_trees[c2s[1]]
    /\ common_tree' = commit_trees[merge_base]
    /\ pc' = "merge_tree"
    /\ UNCHANGED <<rename_detector, file_merger, object_store, done, yielded,
                   driverVars, queryVars, searchVars, k, lcas, fileVars,
                   mergeVars>>

\* line 208: merge_base is read before it was assigned
MergeUnbound ==
    /\ pc = "call"
    /\ merge_base = Unbound
    /\ pc' = "UnboundLocalError"
    /\ UNCHANGED <<treeVars, driverVars, queryVars, searchVars, k, lcas,
                   fileVars, mergeVars>>

\* lines 212-215: the conflicts among the items yielded are returned
MergeCollect ==
    /\ pc = "returned"
    /\ conflicts' = SelectSeq(yielded, IsMergeConflict)
    /\ pc' = "merged"
    /\ UNCHANGED <<treeVars, commit_trees, merge_base, queryVars, searchVars,
                   k, lcas, fileVars, mergeVars>>

MergeNext ==
    \/ MergeFindBase
    \/ MergeCallTree
    \/ MergeUnbound
    \/ MergeTreeYield
    \/ MergeTreeContinue
    \/ MergeTreeRaise
    \/ MergeTreeReturn
    \/ MergeCollect

MergeSpec == MergeInit /\ [][MergeNext]_vars

\* C20: when find_merge_base returns an empty list, merge() merges against
\* a defined base or reports that there is none: it neither calls
\* merge_tree with merge_base undefined nor fails on reading it.
C20_NoMergeBaseIsHandled ==
    (pc # "merge" /\ lcas = <<>>) =>
        /\ pc # "UnboundLocalError"
        /\ pc = "merge_tree" => merge_base # Unbound

(***************************************************************************)
(* Flags of _find_lcas over the steps of one call.                         *)
(***************************************************************************)
\* every bit stored for commit c before the step is stored for it after
KeepsFlags(c) ==
    /\ c \in DOMAIN cstates'
    /\ \A bit \in FlagBits : HasFlag(cstates[c], bit) => HasFlag(cstates'[c], bit)

\* C21: from the initialisation of c1 and c2..cn to the end of the loop, a
\* bit once set for a commit is never cleared by a later step, also when
\* the same id occurs more than once among the inputs.
C21_FlagsOnlyGrow ==
    [][\A c \in DOMAIN cstates : KeepsFlags(c)]_vars

\* the same, for the steps of the while loop alone
LoopKeepsFlags ==
    [][pc = "loop" => \A c \in DOMAIN cstates : KeepsFlags(c)]_vars

(***************************************************************************)
(* generate_chunks over every matching a diff can give.  A diff matches    *)
(* lines of olines with equal lines of dlines in the order of both files   *)
(* (ndiff_matches, lines 54-68; myers_matches, lines 70-83), so matches    *)
(* is a strictly increasing map from line numbers of olines to line        *)
(* numbers of dlines.                                                      *)
(***************************************************************************)
StrictlyIncreasing(m) ==
    \A i, j \in DOMAIN m : i < j => m[i] < m[j]

\* the values that ndiff_matches or myers_matches can return
Matchings(olines, dlines) ==
    { m \in UNION {[D -> DOMAIN dlines] : D \in SUBSET DOMAIN olines} :
          /\ StrictlyIncreasing(m)
          /\ \A i \in DOMAIN m : olines[i] = dlines[m[i]] }

\* Merge3Way.__init__, lines 26-52, with either diff
ChunksInit ==
    /\ \E files \in Inputs :
          /\ o_lines = files[1]
          /\ a_lines = files[2]
          /\ b_lines = files[3]
    /\ a_matches \in Matchings(o_lines, a_lines)
    /\ b_matches \in Matchings(o_lines, b_lines)
    /\ chunks = <<>>
    /\ on = 0
    /\ an = 0
    /\ bn = 0
    /\ res = ""
    /\ parents = <<>>
    /\ c1 = 0
    /\ c2s = <<>>
    /\ NoSearch
    /\ NoMergeTree
    /\ NoMerge
    /\ k = 0
    /\ lcas = <<>>
    /\ pc = "generate_chunks"

ChunksSpec == ChunksInit /\ [][Diff3Next]_vars

\* the call runs on: Python executes the next statement
ChunksFairSpec == ChunksSpec /\ WF_vars(Diff3Next)

\* C22: in every state of generate_chunks the cursors lie within their
\* files, 0 <= on <= len(o_lines), 0 <= an <= len(a_lines) and
\* 0 <= bn <= len(b_lines), and they start from (0, 0, 0).
C22_CursorsWithinFiles ==
    /\ StrictlyIncreasing(a_matches) /\ StrictlyIncreasing(b_matches)
    /\ 0 <= on /\ on <= Len(o_lines)
    /\ 0 <= an /\ an <= Len(a_lines)
    /\ 0 <= bn /\ bn <= Len(b_lines)
    /\ chunks = <<>> => (on = 0 /\ an = 0 /\ bn = 0)

\* two chunks have been emitted, the loop is still running and the cursors
\* of base and this are at the end of their files
C22_Witness ==
    /\ pc = "generate_chunks"
    /\ Len(chunks) >= 2
    /\ on > 0 /\ on = Len(o_lines)
    /\ an > 0 /\ an = Len(a_lines)

\* the step emits a chunk that is not the final one
EmitsChunk == pc = "generate_chunks" /\ pc' = "generate_chunks"

\* C23: generate_chunks terminates: every emit_chunk that is not the final
\* chunk strictly increases at least one of the cursors on, an, bn and
\* decreases none, and the final chunk is emitted after finitely many steps.
C23_GenerateChunksTerminates ==
    /\ <>(pc # "generate_chunks")
    /\ [][EmitsChunk =>
            /\ on' >= on /\ an' >= an /\ bn' >= bn
            /\ on' > on \/ an' > an \/ bn' > bn]_vars

\* the final chunk has been emitted after three chunks that were not final
C23_Witness ==
    /\ pc = "join"
    /\ Len(chunks) >= 4

\* the line at which the range of the chunk written in this step ends in a
\* file whose cursor moves to hi: the final chunk runs to the end
RangeEnd(lines, hi) == IF pc' = "join" THEN Len(lines) ELSE hi

\* lines lo + 1 .. hi of a file, joined
LinesText(lines, lo, hi) == Join(SubSeq(lines, lo + 1, hi))

\* C24: the chunks of one generate_chunks run tile each input: the first
\* chunk starts at line 0, the range of each chunk starts where the range
\* of the previous one ended, the final chunk runs to the end of the file,
\* and nothing is written after it; so every line of base, this and other
\* falls in exactly one chunk.
C24_ChunksTileInputs ==
    [][IF pc = "generate_chunks"
       THEN LET oend == RangeEnd(o_lines, on')
                aend == RangeEnd(a_lines, an')
                bend == RangeEnd(b_lines, bn')
            IN  /\ chunks = <<>> => (on = 0 /\ an = 0 /\ bn = 0)
                /\ on <= oend /\ an <= aend /\ bn <= bend
                /\ Len(chunks') = Len(chunks) + 1
                /\ SubSeq(chunks', 1, Len(chunks)) = chunks
                /\ chunks'[Len(chunks')] =
                       Resolve(LinesText(o_lines, on, oend),
                               LinesText(a_lines, an, aend),
                               LinesText(b_lines, bn, bend))
       ELSE chunks' = chunks]_vars

\* a run has ended with three chunks, the final one covering lines of all
\* three files
C24_Witness ==
    /\ pc = "merged"
    /\ Len(chunks) = 3
    /\ 0 < on /\ on < Len(o_lines)
    /\ 0 < an /\ an < Len(a_lines)
    /\ 0 < bn /\ bn < Len(b_lines)

\* C25: for commits c1 # c2, _find_lcas(parents, c1, [c2]) and
\* _find_lcas(parents, c2, [c1]) return the same set of commits: the result
\* does not depend on which commit is given first.
C25_PairSearchIsSymmetric ==
    (pc = "done" /\ PairQuery /\ c1 # c2s[1]) =>
        Range(results) = Range(find_lcas(parents, c2s[1], <<c1>>))

====
